---- MODULE Spec2Model ----
(***************************************************************************)
(* Model of server/artwork.py: the artwork catalogue service.              *)
(*                                                                         *)
(* The artworks table, the uploads directory and the pool of open storage  *)
(* connections are the state.  Each service entry point (get_artwork,      *)
(* get_all_artworks, create_artwork, update_artwork, delete_artwork) is    *)
(* one atomic action: the service is single-threaded request/response.     *)
(*                                                                         *)
(* Python strings that the code inspects (startswith, split, basename)     *)
(* are sequences of text tokens; "/" , "," and ";" are tokens of their     *)
(* own, so that prefixes and separators fall on token boundaries.          *)
(* A nullable value is <<>> (None) or <<v>>.                               *)
(***************************************************************************)
EXTENDS Integers, Sequences, FiniteSets, TLC

VARIABLES
    artworks,     \* the artworks table: id -> row
    next_id,      \* the table's AUTO_INCREMENT counter
    files,        \* number of image files written under static/uploads
    connections,  \* storage connections currently open
    ops,          \* number of service calls made so far
    last,         \* the call being answered: its inputs, its result, the state before it
    created,      \* history: id -> the data of the create_artwork call that made the
                  \* row, for the rows not updated or deleted since
    migrated      \* history: id -> the path a get_artwork call that met no fault
                  \* stored the row's inline image under, for the rows not updated
                  \* or deleted since

vars == <<artworks, next_id, files, connections, ops, last, created, migrated>>

---------------------------------------------------------------------------
(* Bounds *)

MaxOps == 2      \* service calls per behaviour

---------------------------------------------------------------------------
(* Python values *)

None == <<>>
Some(v) == <<v>>

\* dict.get(key, default)
Get(d, key, default) == IF key \in DOMAIN d THEN d[key] ELSE default

\* str.startswith
StartsWith(s, p) == Len(s) >= Len(p) /\ SubSeq(s, 1, Len(p)) = p

\* the positions at which p occurs in s
Occurrences(s, p) ==
    {i \in 1..(Len(s) - Len(p) + 1) : SubSeq(s, i, i + Len(p) - 1) = p}

Min(S) == CHOOSE x \in S : \A y \in S : x <= y
Max(S) == CHOOSE x \in S : \A y \in S : x >= y

\* os.path.basename: what follows the last "/"
Basename(s) ==
    LET slashes == {i \in 1..Len(s) : s[i] = "/"}
    IN IF slashes = {} THEN s ELSE SubSeq(s, Max(slashes) + 1, Len(s))

\* the text before the first occurrence of p (all of s when p does not occur)
Before(s, p) ==
    IF Occurrences(s, p) = {} THEN s ELSE SubSeq(s, 1, Min(Occurrences(s, p)) - 1)

\* the text after the first occurrence of p
After(s, p) == SubSeq(s, Min(Occurrences(s, p)) + Len(p), Len(s))

\* str() of a nullable integer
Str(v) == IF v = None THEN "None" ELSE ToString(v[1])

DataPrefix == <<"data:">>
Base64Prefix == <<"base64", ",">>
DataImagePrefix == <<"data:", "image", "/">>
StaticPrefix == <<"/", "static", "/">>
UploadsPrefix == <<"/", "static", "/", "uploads", "/">>

---------------------------------------------------------------------------
(* Image Store *)

\* the number of base64 characters (alphabet and padding) of a token; every other
\* character is discarded by base64.b64decode
Base64Chars(tok) ==
    CASE tok = "iVBORw0KGgo=" -> 12
      [] tok = "iVBORw0" -> 7
      [] tok = "data:" -> 4
      [] tok = "image" -> 5
      [] tok = "png" -> 3
      [] tok = "base64" -> 6
      [] tok = "/" -> 1
      [] OTHER -> 0

RECURSIVE Base64Length(_)
Base64Length(s) == IF s = <<>> THEN 0 ELSE Base64Chars(Head(s)) + Base64Length(Tail(s))

\* base64.b64decode raises (incorrect padding) unless the characters come in fours
Decodes(s) == Base64Length(s) % 4 = 0

\* save_image_from_base64: the public path of the file written for an inline image,
\* or None.  n numbers the file (timestamp and uuid make every name fresh);
\* disk_ok is whether the uploads directory can be written.
save_image_from_base64(base64_data, n, disk_ok) ==
    IF ~StartsWith(base64_data, DataPrefix) THEN None
    ELSE
        LET tagged == Occurrences(base64_data, DataImagePrefix) # {}
            header == Before(base64_data, <<",">>)
            \* split(',', 1) into two names raises without a comma;
            \* split('data:image/')[1] raises when the header lacks the marker
            raises == tagged /\ (Occurrences(base64_data, <<",">>) = {}
                                 \/ Occurrences(header, DataImagePrefix) = {})
            body == IF tagged THEN After(base64_data, <<",">>) ELSE base64_data
            image_format ==
                IF tagged
                THEN Before(Before(After(header, DataImagePrefix), DataImagePrefix), <<";">>)
                ELSE <<"jpg">>
            filename == <<"artwork_", ToString(n), ".">> \o image_format
        IN IF raises \/ ~Decodes(body) \/ ~disk_ok THEN None
           ELSE Some(UploadsPrefix \o filename)

\* lines 58-59 and 99-100: a stored path outside /static/ is served from the uploads
\* directory under its base name
PublicPath(image_url) ==
    IF ~StartsWith(image_url, StaticPrefix)
    THEN UploadsPrefix \o Basename(image_url)
    ELSE image_url

\* Python truthiness of a nullable string
Truthy(s) == s # None /\ s[1] # <<>>

---------------------------------------------------------------------------
(* Authorization Guard (middleware) *)

NoHeader == None

\* extract_auth_token: the bearer credential of the header, or None
extract_auth_token(auth_header) ==
    IF auth_header = None \/ ~StartsWith(auth_header[1], <<"Bearer", " ">>) THEN None
    ELSE Some(SubSeq(auth_header[1], 3, Len(auth_header[1])))

\* the slip `if token is None`: an empty token goes on to verify_token
NoTokenNoneOnly(token) == token = None

\* `not token`: None or the empty string
NoToken(token) == token = None \/ token[1] = <<>>

AdminClaims   == [sub |-> 1,  is_admin |-> TRUE,  is_artist |-> FALSE]
ArtistAClaims == [sub |-> 42, is_admin |-> FALSE, is_artist |-> TRUE]
ArtistBClaims == [sub |-> 7,  is_admin |-> FALSE, is_artist |-> TRUE]
UserClaims    == [sub |-> 9,  is_admin |-> FALSE, is_artist |-> FALSE]

\* verify_token: the claims of a valid token, {"error": ...} for a rejected one,
\* None (no mapping at all) for one whose payload cannot be read
verify_token(token) ==
    CASE token = <<"admin">>   -> AdminClaims
      [] token = <<"artistA">> -> ArtistAClaims
      [] token = <<"artistB">> -> ArtistBClaims
      [] token = <<"user">>    -> UserClaims
      [] token = <<"garbled">> -> None
      [] OTHER                 -> [error |-> "Invalid token"]

\* isinstance(payload, dict)
IsDict(payload) == payload # None

IsAuthError(payload) == IsDict(payload) /\ "error" \in DOMAIN payload

---------------------------------------------------------------------------
(* Storage *)

\* What the environment does to one service call.  At most one collaborator fails:
\*   "verify"     verify_token raises
\*   "connect"    get_db_connection returns None
\*   "cursor"     connection.cursor() raises
\*   "select"     the SELECT raises
\*   "lost"       the server drops the connection: the first statement raises and
\*                is_connected() is false from then on
\*   "write"      the INSERT, UPDATE or DELETE raises
\*   "commit"     commit raises; the statement is rolled back
\*   "disk"       the uploads directory cannot be written
\*   "same_rows"  the UPDATE finds the row but reports no changed row
\*   "wb_connect", "wb_cursor", "wb_write", "wb_commit"
\*                the same failures inside update_artwork_image
StorageError == "storage error"
ConnectionFailed == [error |-> "Database connection failed"]

\* cursor.fetchone() after SELECT ... WHERE id = %s
fetchone(table, artwork_id) ==
    IF artwork_id \in DOMAIN table THEN Some(table[artwork_id]) ELSE None

\* the table without the row artwork_id
Without(table, artwork_id) ==
    [i \in DOMAIN table \ {artwork_id} |-> table[i]]

\* the ids of the table in descending order (ORDER BY id DESC)
RECURSIVE Descending(_)
Descending(ids) ==
    IF ids = {} THEN <<>> ELSE <<Max(ids)>> \o Descending(ids \ {Max(ids)})

\* get_db_connection() returned a connection: one more is open
Acquired(conns) == conns + 1

\* the server dropped a connection: it is open no more
Dropped(conns) == conns - 1

\* the finally block: cursor.close() and connection.close(), on a connection
\* that is_connected() only
Finally(conns, is_connected) == IF is_connected THEN conns - 1 ELSE conns

\* a call that got its cursor leaves through the finally block, the connection
\* still live unless the server dropped it
Released(conns, fault) ==
    IF fault = "lost" THEN Finally(Dropped(Acquired(conns)), FALSE)
    ELSE Finally(Acquired(conns), TRUE)

\* the slip of leaving out connection.commit(): the UPDATE is rolled back on close
update_artwork_image_uncommitted(table, conns, artwork_id, image_path, fault) ==
    IF fault = "wb_connect"
    THEN [artworks |-> table, connections |-> conns, opened |-> 0, raised |-> FALSE]
    ELSE IF fault = "wb_cursor"
    THEN [artworks |-> table, connections |-> Acquired(conns), opened |-> 1,
          raised |-> TRUE]
    ELSE [artworks |-> table, connections |-> Finally(Acquired(conns), TRUE),
          opened |-> 1, raised |-> FALSE]

\* update_artwork_image(artwork_id, image_path): artwork_id is the string form
\* of the id; the statement matches the row whose id has that string form.
\* Gives the table, the connections left open, how many it opened and whether
\* the call raised.
update_artwork_image(table, conns, artwork_id, image_path, fault) ==
    IF fault = "wb_connect"
    THEN [artworks |-> table, connections |-> conns, opened |-> 0, raised |-> FALSE]
    ELSE IF fault = "wb_cursor"
    THEN [artworks |-> table, connections |-> Acquired(conns), opened |-> 1,
          raised |-> TRUE]
    ELSE IF fault \in {"wb_write", "wb_commit"}
    THEN [artworks |-> table, connections |-> Finally(Acquired(conns), TRUE),
          opened |-> 1, raised |-> FALSE]
    ELSE [artworks |-> [i \in DOMAIN table |->
                          IF ToString(i) = artwork_id
                          THEN [table[i] EXCEPT !.image_url = Some(image_path)]
                          ELSE table[i]],
          connections |-> Finally(Acquired(conns), TRUE), opened |-> 1,
          raised |-> FALSE]

\* the record get_artwork returns for a row: the id as a string, the image
\* path as served (lines 39 and 47-59)
Served(row, image_url) == [row EXCEPT !.id = ToString(row.id), !.image_url = image_url]

IsInline(image_url) ==
    StartsWith(image_url, DataPrefix) \/ StartsWith(image_url, Base64Prefix)

get_artwork(table, nfiles, conns, artwork_id, fault) ==
    LET same(result) == [artworks |-> table, files |-> nfiles,
                         connections |-> Released(conns, fault),
                         opened |-> 1, result |-> result]
        row == fetchone(table, artwork_id)
    IN
    IF fault = "connect"
    THEN [artworks |-> table, files |-> nfiles, connections |-> conns,
          opened |-> 0, result |-> ConnectionFailed]
    ELSE IF fault = "cursor"
    THEN [artworks |-> table, files |-> nfiles, connections |-> Acquired(conns),
          opened |-> 1, result |-> [raised |-> StorageError]]
    ELSE IF fault \in {"select", "lost"} THEN same([error |-> StorageError])
    ELSE IF row = None THEN same([error |-> "Artwork not found"])
    ELSE
        LET stored == row[1].image_url
        IN
        IF ~Truthy(stored) THEN same([artwork |-> Served(row[1], stored)])
        ELSE IF IsInline(stored[1])
        THEN
            LET saved_path == save_image_from_base64(stored[1], nfiles + 1, fault # "disk")
                wb == update_artwork_image(table, Acquired(conns), ToString(artwork_id),
                                           saved_path[1], fault)
            IN
            IF saved_path = None THEN same([artwork |-> Served(row[1], stored)])
            ELSE [artworks |-> wb.artworks, files |-> nfiles + 1,
                  connections |-> Finally(wb.connections, TRUE),
                  opened |-> 1 + wb.opened,
                  result |-> IF wb.raised THEN [error |-> StorageError]
                             ELSE [artwork |-> Served(row[1], saved_path)]]
        ELSE same([artwork |-> Served(row[1], Some(PublicPath(stored[1])))])

\* lines 98-100 of get_all_artworks: no inline image is materialized here
ListedPath(image_url) ==
    IF Truthy(image_url) THEN Some(PublicPath(image_url[1])) ELSE image_url

get_all_artworks(table, nfiles, conns, fault) ==
    LET same(result) == [artworks |-> table, files |-> nfiles,
                         connections |-> Released(conns, fault),
                         opened |-> 1, result |-> result]
        order == Descending(DOMAIN table)
    IN
    IF fault = "connect"
    THEN [artworks |-> table, files |-> nfiles, connections |-> conns,
          opened |-> 0, result |-> ConnectionFailed]
    ELSE IF fault = "cursor"
    THEN [artworks |-> table, files |-> nfiles, connections |-> Acquired(conns),
          opened |-> 1, result |-> [raised |-> StorageError]]
    ELSE IF fault \in {"select", "lost"} THEN same([error |-> StorageError])
    ELSE same([artworks |-> [k \in 1..Len(order) |->
                  Served(table[order[k]], ListedPath(table[order[k]].image_url))]])

---------------------------------------------------------------------------
(* Mutations *)

\* lines 130-134: the caller may mutate the catalogue
MayMutate(payload) ==
    Get(payload, "is_admin", FALSE) \/ Get(payload, "is_artist", FALSE)

\* the slip `if is_artist and is_admin`: no plain artist is ever checked
NotOwnerAdminsOnly(payload, row) ==
    /\ Get(payload, "is_artist", FALSE) /\ Get(payload, "is_admin", FALSE)
    /\ Str(row.artist_id) # Str(IF "sub" \in DOMAIN payload THEN Some(payload.sub) ELSE None)

\* lines 245-249 and 359-363: an artist who is no admin and whose subject is not,
\* as a string, the row's artist_id
NotOwner(payload, row) ==
    /\ Get(payload, "is_artist", FALSE) /\ ~Get(payload, "is_admin", FALSE)
    /\ Str(row.artist_id) # Str(IF "sub" \in DOMAIN payload THEN Some(payload.sub) ELSE None)

\* the slip of taking the data's artist_id first
OwnerOfDataFirst(payload, artwork_data) ==
    IF "artist_id" \in DOMAIN artwork_data THEN Some(artwork_data.artist_id)
    ELSE IF Get(payload, "is_artist", FALSE)
    THEN (IF "sub" \in DOMAIN payload THEN Some(payload.sub) ELSE None)
    ELSE None

\* lines 145-149: the artist_id of a new row
OwnerOf(payload, artwork_data) ==
    IF Get(payload, "is_artist", FALSE)
    THEN (IF "sub" \in DOMAIN payload THEN Some(payload.sub) ELSE None)
    ELSE IF "artist_id" \in DOMAIN artwork_data THEN Some(artwork_data.artist_id)
    ELSE None

\* `not artwork_data[field]` for a required field: the empty title, the price 0
Falsy(field, value) == IF field = "price" THEN value = 0 ELSE value = ""

\* lines 152-155: the first required field that is absent or falsy, or None
MissingField(artwork_data) ==
    IF "title" \notin DOMAIN artwork_data \/ Falsy("title", artwork_data.title)
    THEN Some("title")
    ELSE IF "price" \notin DOMAIN artwork_data \/ Falsy("price", artwork_data.price)
    THEN Some("price")
    ELSE None

\* `"image" in artwork_data and artwork_data["image"]`
HasImage(artwork_data) == "image" \in DOMAIN artwork_data /\ artwork_data.image # <<>>

\* the slip of giving status the default of the other text columns
InsertedRowStatusBlank(artwork_id, artwork_data, image_url, artist_id) ==
    [id          |-> artwork_id,
     title       |-> Get(artwork_data, "title", ""),
     artist      |-> Get(artwork_data, "artist", ""),
     description |-> Get(artwork_data, "description", ""),
     price       |-> Get(artwork_data, "price", 0),
     image_url   |-> image_url,
     dimensions  |-> Get(artwork_data, "dimensions", ""),
     medium      |-> Get(artwork_data, "medium", ""),
     year        |-> Get(artwork_data, "year", ""),
     status      |-> Get(artwork_data, "status", ""),
     artist_id   |-> artist_id]

\* lines 173-186: the row inserted for artwork_data
InsertedRow(artwork_id, artwork_data, image_url, artist_id) ==
    [id          |-> artwork_id,
     title       |-> Get(artwork_data, "title", ""),
     artist      |-> Get(artwork_data, "artist", ""),
     description |-> Get(artwork_data, "description", ""),
     price       |-> Get(artwork_data, "price", 0),
     image_url   |-> image_url,
     dimensions  |-> Get(artwork_data, "dimensions", ""),
     medium      |-> Get(artwork_data, "medium", ""),
     year        |-> Get(artwork_data, "year", ""),
     status      |-> Get(artwork_data, "status", "available"),
     artist_id   |-> artist_id]

\* the slip of letting the key column into the map
field_map_with_id ==
    {"title", "artist", "description", "price", "dimensions", "medium", "year", "status",
     "id"}

\* lines 267-276: field_map
field_map ==
    {"title", "artist", "description", "price", "dimensions", "medium", "year", "status"}

\* lines 279-287: the columns the UPDATE statement sets
update_fields(artwork_data, image_url) ==
    (field_map \cap DOMAIN artwork_data) \cup (IF Truthy(image_url) THEN {"image_url"} ELSE {})

\* lines 294-302: the row after UPDATE artworks SET ... WHERE id = %s
UpdatedRow(row, artwork_data, image_url) ==
    [c \in DOMAIN row |->
        IF c \in update_fields(artwork_data, image_url)
        THEN (IF c = "image_url" THEN image_url ELSE artwork_data[c])
        ELSE row[c]]

\* lines 121-134: what the guard answers before any connection is opened, or None
\* when the caller may go on
Guard(auth_header, fault) ==
    LET token == extract_auth_token(auth_header)
        payload == verify_token(token[1])
    IN
    IF NoToken(token) THEN Some([error |-> "Authentication required"])
    ELSE IF fault = "verify" THEN Some([raised |-> "verify_token"])
    ELSE IF IsAuthError(payload) THEN Some([error |-> payload.error])
    ELSE IF ~IsDict(payload) THEN Some([raised |-> "AttributeError"])
    ELSE IF ~MayMutate(payload)
    THEN Some([error |-> "Unauthorized: Admin or artist privileges required"])
    ELSE None

Claims(auth_header) == verify_token(extract_auth_token(auth_header)[1])

create_artwork(table, nid, nfiles, conns, auth_header, artwork_data, fault) ==
    LET refused == Guard(auth_header, fault)
        out(t, n, f, c, r) ==
            [artworks |-> t, next_id |-> n, files |-> f, connections |-> c,
             opened |-> IF refused # None \/ fault = "connect" THEN 0 ELSE 1,
             result |-> r]
        payload == Claims(auth_header)
        artist_id == OwnerOf(payload, artwork_data)
        missing == MissingField(artwork_data)
        image_url == IF HasImage(artwork_data)
                     THEN save_image_from_base64(artwork_data.image, nfiles + 1,
                                                 fault # "disk")
                     ELSE None
        stored == IF image_url # None THEN nfiles + 1 ELSE nfiles
        closed == Released(conns, fault)
    IN
    IF refused # None THEN out(table, nid, nfiles, conns, refused[1])
    ELSE IF fault = "connect" THEN out(table, nid, nfiles, conns, ConnectionFailed)
    ELSE IF fault = "cursor"
    THEN out(table, nid, nfiles, Acquired(conns), [raised |-> StorageError])
    ELSE IF missing # None
    THEN out(table, nid, nfiles, closed,
             [error |-> "Missing required field: " \o missing[1]])
    ELSE IF fault \in {"write", "lost", "commit"}
    THEN out(table, nid, stored, closed, [error |-> StorageError])
    ELSE out(table @@ (nid :> InsertedRow(nid, artwork_data, image_url, artist_id)),
             nid + 1, stored, closed, [success |-> TRUE, artwork_id |-> nid])

update_artwork(table, nfiles, conns, auth_header, artwork_id, artwork_data, fault) ==
    LET refused == Guard(auth_header, fault)
        out(t, f, c, r) ==
            [artworks |-> t, files |-> f, connections |-> c,
             opened |-> IF refused # None \/ fault = "connect" THEN 0 ELSE 1,
             result |-> r]
        payload == Claims(auth_header)
        existing_artwork == fetchone(table, artwork_id)
        image_url == IF HasImage(artwork_data) /\ IsInline(artwork_data.image)
                     THEN save_image_from_base64(artwork_data.image, nfiles + 1,
                                                 fault # "disk")
                     ELSE None
        stored == IF image_url # None THEN nfiles + 1 ELSE nfiles
        closed == Released(conns, fault)
        row == UpdatedRow(existing_artwork[1], artwork_data, image_url)
        \* cursor.rowcount: the driver counts the rows found, or (fault "same_rows")
        \* the rows changed
        rowcount == IF fault = "same_rows" /\ row = existing_artwork[1] THEN 0 ELSE 1
    IN
    IF refused # None THEN out(table, nfiles, conns, refused[1])
    ELSE IF fault = "connect" THEN out(table, nfiles, conns, ConnectionFailed)
    ELSE IF fault = "cursor"
    THEN out(table, nfiles, Acquired(conns), [raised |-> StorageError])
    ELSE IF fault \in {"select", "lost"}
    THEN out(table, nfiles, closed, [error |-> StorageError])
    ELSE IF existing_artwork = None
    THEN out(table, nfiles, closed,
             [error |-> "Artwork with ID " \o ToString(artwork_id) \o " not found"])
    ELSE IF NotOwner(payload, existing_artwork[1])
    THEN out(table, nfiles, closed,
             [error |-> "Unauthorized: You can only update your own artworks"])
    ELSE IF update_fields(artwork_data, image_url) = {}
    THEN out(table, nfiles, closed, [error |-> "No fields provided for update"])
    ELSE IF fault \in {"write", "commit"}
    THEN out(table, stored, closed, [error |-> StorageError])
    ELSE IF rowcount = 0
    THEN out(table, stored, closed, [error |-> "No changes were made to the artwork"])
    ELSE out([table EXCEPT ![artwork_id] = row], stored, closed,
             [success |-> TRUE, artwork_id |-> artwork_id])

delete_artwork(table, nfiles, conns, auth_header, artwork_id, fault) ==
    LET refused == Guard(auth_header, fault)
        out(t, c, r) ==
            [artworks |-> t, files |-> nfiles, connections |-> c,
             opened |-> IF refused # None \/ fault = "connect" THEN 0 ELSE 1,
             result |-> r]
        payload == Claims(auth_header)
        existing_artwork == fetchone(table, artwork_id)
        closed == Released(conns, fault)
    IN
    IF refused # None THEN out(table, conns, refused[1])
    ELSE IF fault = "connect" THEN out(table, conns, ConnectionFailed)
    ELSE IF fault = "cursor" THEN out(table, Acquired(conns), [raised |-> StorageError])
    ELSE IF fault \in {"select", "lost"} THEN out(table, closed, [error |-> StorageError])
    ELSE IF existing_artwork = None
    THEN out(table, closed,
             [error |-> "Artwork with ID " \o ToString(artwork_id) \o " not found"])
    ELSE IF NotOwner(payload, existing_artwork[1])
    THEN out(table, closed,
             [error |-> "Unauthorized: You can only delete your own artworks"])
    ELSE IF fault \in {"write", "commit"} THEN out(table, closed, [error |-> StorageError])
    ELSE out(Without(table, artwork_id), closed,
             [success |-> TRUE, message |-> "Artwork deleted successfully"])

---------------------------------------------------------------------------
(* Inputs *)

InlinePng   == <<"data:", "image", "/", "png", ";", "base64", ",", "iVBORw0KGgo=">>
BadPadding  == <<"data:", "image", "/", "png", ";", "base64", ",", "iVBORw0">>
BareBase64  == <<"base64", ",", "iVBORw0KGgo=">>
BareName    == <<"sunset.jpg">>
OtherStatic == <<"/", "static", "/", "images", "/", "sunset.jpg">>
Uploaded    == <<"/", "static", "/", "uploads", "/", "sunset.jpg">>

\* what a row written before this service normalized images may hold
LegacyImages ==
    {Some(InlinePng), Some(BadPadding), Some(BareBase64), Some(BareName),
     Some(OtherStatic)}

LegacyRow(image_url) ==
    [id |-> 1, title |-> "Old master", artist |-> "Ana", description |-> "",
     price |-> 500, image_url |-> image_url, dimensions |-> "", medium |-> "oil",
     year |-> "1999", status |-> "available", artist_id |-> Some(42)]

Bearer(token) == Some(<<"Bearer", " ", token>>)

\* callers the guard lets through: an admin, the artist 42, the artist 7
Mutators == {Bearer("admin"), Bearer("artistA"), Bearer("artistB")}

\* headers that carry no token
Anonymous == {NoHeader, Some(<<"Bearer", " ">>)}

\* callers the guard turns away after reading their token
Refused == {Bearer("user"), Bearer("expired"), Bearer("garbled")}

AuthHeaders == Mutators \cup Anonymous \cup Refused

CreateData ==
    {[title |-> "Sunset", price |-> 100, image |-> BadPadding],
     [title |-> "Sunset", price |-> 0],
     [title |-> "", price |-> 100],
     [price |-> 100, image |-> InlinePng],
     [title |-> "Sunset", image |-> InlinePng],
     [title |-> "Dawn", price |-> 250, artist |-> "Ben", description |-> "a dawn",
      dimensions |-> "10x10", medium |-> "ink", year |-> "2024", status |-> "sold",
      artist_id |-> 7, image |-> InlinePng]}

UpdateData ==
    {<<>>,
     [title |-> "Old master"],
     [price |-> 0, status |-> "sold"],
     [image_url |-> Uploaded],
     [title |-> "Dusk", image_url |-> Uploaded, artist_id |-> 7, id |-> 9],
     [image |-> InlinePng],
     [image |-> BareName]}

---------------------------------------------------------------------------
(* The service *)

\* a call being answered: what it was given, what it returns, how many storage
\* connections it opened, and the table, the upload count, the open connections,
\* the id counter and the migration history it started from.  The environment
\* draws a fault only where the call meets it: a fault that changes nothing of
\* the call is the call without it.
Call(op, auth_header, artwork_id, artwork_data, fault, o) ==
    [op |-> op, auth_header |-> auth_header, artwork_id |-> artwork_id,
     artwork_data |-> artwork_data, fault |-> fault, result |-> o.result,
     opened |-> o.opened, artworks |-> artworks, files |-> files,
     connections |-> connections, next_id |-> next_id, migrated |-> migrated]

\* no call is being answered
Idle == [op |-> "idle"]

Init ==
    /\ \E image_url \in LegacyImages :
            artworks = (1 :> LegacyRow(image_url)) /\ next_id = 2
    /\ files = 0
    /\ connections = 0
    /\ ops = 0
    /\ created = <<>>
    /\ migrated = <<>>
    /\ last = Idle

GetArtwork ==
    /\ last = Idle
    /\ ops < MaxOps
    /\ \E artwork_id \in 1..next_id,
          fault \in {"none", "connect", "cursor", "select", "lost", "disk",
                     "wb_connect", "wb_cursor", "wb_write", "wb_commit"} :
           LET o == get_artwork(artworks, files, connections, artwork_id, fault)
           IN /\ fault # "none" =>
                   o # get_artwork(artworks, files, connections, artwork_id, "none")
              /\ artworks' = o.artworks
              /\ files' = o.files
              /\ connections' = o.connections
              /\ ops' = ops + 1
              /\ last' = Call("get_artwork", None, artwork_id, <<>>, fault, o)
              /\ migrated' = IF fault = "none" /\ o.files > files
                             THEN migrated @@ (artwork_id :> o.result.artwork.image_url)
                             ELSE migrated
              /\ UNCHANGED <<next_id, created>>

GetAllArtworks ==
    /\ last = Idle
    /\ ops < MaxOps
    /\ \E fault \in {"none", "connect", "cursor", "select", "lost"} :
           LET o == get_all_artworks(artworks, files, connections, fault)
           IN /\ fault # "none" =>
                   o # get_all_artworks(artworks, files, connections, "none")
              /\ connections' = o.connections
              /\ ops' = ops + 1
              /\ last' = Call("get_all_artworks", None, 0, <<>>, fault, o)
              /\ UNCHANGED <<artworks, next_id, files, created, migrated>>

CreateArtwork ==
    /\ last = Idle
    /\ ops < MaxOps
    /\ \E auth_header \in AuthHeaders, artwork_data \in CreateData,
          fault \in {"none", "verify", "connect", "cursor", "write", "lost", "commit", "disk"} :
           LET o == create_artwork(artworks, next_id, files, connections,
                                   auth_header, artwork_data, fault)
           IN /\ fault # "none" =>
                   o # create_artwork(artworks, next_id, files, connections,
                                      auth_header, artwork_data, "none")
              /\ artworks' = o.artworks
              /\ next_id' = o.next_id
              /\ files' = o.files
              /\ connections' = o.connections
              /\ ops' = ops + 1
              /\ last' = Call("create_artwork", auth_header, 0, artwork_data, fault, o)
              /\ created' = IF "success" \in DOMAIN o.result
                            THEN created @@ (next_id :> artwork_data)
                            ELSE created
              /\ UNCHANGED migrated

UpdateArtwork ==
    /\ last = Idle
    /\ ops < MaxOps
    /\ \E auth_header \in AuthHeaders, artwork_id \in 1..next_id, artwork_data \in UpdateData,
          fault \in {"none", "verify", "connect", "cursor", "select", "lost", "write",
                     "commit", "disk", "same_rows"} :
           LET o == update_artwork(artworks, files, connections,
                                   auth_header, artwork_id, artwork_data, fault)
           IN /\ fault # "none" =>
                   o # update_artwork(artworks, files, connections,
                                      auth_header, artwork_id, artwork_data, "none")
              /\ artworks' = o.artworks
              /\ files' = o.files
              /\ connections' = o.connections
              /\ ops' = ops + 1
              /\ last' = Call("update_artwork", auth_header, artwork_id, artwork_data,
                              fault, o)
              /\ created' = IF "success" \in DOMAIN o.result
                            THEN Without(created, artwork_id)
                            ELSE created
              /\ migrated' = IF "success" \in DOMAIN o.result
                             THEN Without(migrated, artwork_id)
                             ELSE migrated
              /\ UNCHANGED next_id

DeleteArtwork ==
    /\ last = Idle
    /\ ops < MaxOps
    /\ \E auth_header \in AuthHeaders, artwork_id \in 1..next_id,
          fault \in {"none", "verify", "connect", "cursor", "select", "lost", "write",
                     "commit"} :
           LET o == delete_artwork(artworks, files, connections,
                                   auth_header, artwork_id, fault)
           IN /\ fault # "none" =>
                   o # delete_artwork(artworks, files, connections,
                                      auth_header, artwork_id, "none")
              /\ artworks' = o.artworks
              /\ connections' = o.connections
              /\ ops' = ops + 1
              /\ last' = Call("delete_artwork", auth_header, artwork_id, <<>>, fault, o)
              /\ created' = IF "success" \in DOMAIN o.result
                            THEN Without(created, artwork_id)
                            ELSE created
              /\ migrated' = IF "success" \in DOMAIN o.result
                             THEN Without(migrated, artwork_id)
                             ELSE migrated
              /\ UNCHANGED <<next_id, files>>

\* the result is handed to the HTTP layer; the service waits for the next request
Respond ==
    /\ last # Idle
    /\ last' = Idle
    /\ UNCHANGED <<artworks, next_id, files, connections, ops, created, migrated>>

Next ==
    \/ Respond
    \/ GetArtwork
    \/ GetAllArtworks
    \/ CreateArtwork
    \/ UpdateArtwork
    \/ DeleteArtwork

Spec == Init /\ [][Next]_vars

---------------------------------------------------------------------------
(* Properties *)

Answering(op) == last.op = op
Mutating == last.op \in {"create_artwork", "update_artwork", "delete_artwork"}
Succeeded == "success" \in DOMAIN last.result
Failed == "error" \in DOMAIN last.result

\* the claims the caller's header stands for: None without a readable token
Caller ==
    IF last.auth_header \in Mutators \cup Refused
    THEN verify_token(<<last.auth_header[1][3]>>)
    ELSE None

CallerIs(is_admin, is_artist) ==
    /\ Caller # None
    /\ "sub" \in DOMAIN Caller
    /\ Caller.is_admin = is_admin
    /\ Caller.is_artist = is_artist

\* the row the call was aimed at, as it was before the call
Target == last.artworks[last.artwork_id]
HasTarget == last.artwork_id \in DOMAIN last.artworks

\* C1: update_artwork and delete_artwork by an artist who is no admin, on a row
\* whose artist_id is set and differs (as a string) from the caller's subject,
\* never succeed and leave the table as it was, and answer Unauthorized when the
\* call meets no collaborator failure; and whoever succeeds in updating or
\* deleting a row with an artist_id is an admin or the artist of that id.
C1_OnlyOwnerOrAdminMutates ==
    (last.op \in {"update_artwork", "delete_artwork"} /\ HasTarget
     /\ Target.artist_id # None)
    => /\ (CallerIs(FALSE, TRUE) /\ ToString(Target.artist_id[1]) # ToString(Caller.sub))
          => /\ ~Succeeded
             /\ artworks = last.artworks
             /\ last.artwork_id \in DOMAIN artworks
             /\ last.fault = "none" =>
                  last.result =
                    [error |-> IF Answering("update_artwork")
                               THEN "Unauthorized: You can only update your own artworks"
                               ELSE "Unauthorized: You can only delete your own artworks"]
       /\ Succeeded
          => \/ CallerIs(TRUE, TRUE) \/ CallerIs(TRUE, FALSE)
             \/ CallerIs(FALSE, TRUE)
                /\ ToString(Target.artist_id[1]) = ToString(Caller.sub)

\* artist 7 was refused the update of a row of artist 42
C1_Witness ==
    /\ Answering("update_artwork")
    /\ last.auth_header = Bearer("artistB")
    /\ HasTarget /\ Target.artist_id = Some(42)
    /\ last.artwork_data = [price |-> 0, status |-> "sold"]
    /\ last.fault = "none"
    /\ last.result = [error |-> "Unauthorized: You can only update your own artworks"]
    /\ artworks = last.artworks

\* C2: a create_artwork, update_artwork or delete_artwork call whose header yields
\* no token answers "Authentication required" whatever its payload and target,
\* opens no connection and leaves the table, the id counter and the uploads as
\* they were.
C2_NoTokenNoEffect ==
    (Mutating /\ last.auth_header \in Anonymous)
    => /\ last.result = [error |-> "Authentication required"]
       /\ last.opened = 0
       /\ artworks = last.artworks
       /\ next_id = last.next_id
       /\ files = last.files
       /\ connections = last.connections

\* an update with a usable payload, aimed at an existing row, from a caller whose
\* bearer header carries an empty token
C2_Witness ==
    /\ Answering("update_artwork")
    /\ last.auth_header = Some(<<"Bearer", " ">>)
    /\ HasTarget
    /\ last.artwork_data = [price |-> 0, status |-> "sold"]
    /\ last.result = [error |-> "Authentication required"]

\* the caller passed the guard and the call met no collaborator failure
Authorized == Caller # None /\ "sub" \in DOMAIN Caller /\ (Caller.is_admin \/ Caller.is_artist)

\* C3 (as claimed): an authorized create_artwork whose data lacks title or price
\* answers a validation error naming the field and writes no row and no file;
\* one with a non-empty title and a price present, the price 0 included, is not
\* answered "Missing required field".
C3_RequiredFieldsAsClaimed ==
    (Answering("create_artwork") /\ Authorized /\ last.fault = "none")
    => LET data == last.artwork_data
       IN /\ "title" \notin DOMAIN data
             => /\ last.result = [error |-> "Missing required field: title"]
                /\ artworks = last.artworks /\ files = last.files
          /\ ("title" \in DOMAIN data /\ data.title # "" /\ "price" \notin DOMAIN data)
             => /\ last.result = [error |-> "Missing required field: price"]
                /\ artworks = last.artworks /\ files = last.files
          /\ ("title" \in DOMAIN data /\ data.title # "" /\ "price" \in DOMAIN data)
             => last.result \notin {[error |-> "Missing required field: title"],
                                    [error |-> "Missing required field: price"]}

\* the value a created row holds for a field: the one supplied, else the default
Supplied(data, field, default) == IF field \in DOMAIN data THEN data[field] ELSE default

\* C4: get_artwork of an id that create_artwork returned, the row not updated or
\* deleted since and the read meeting no storage failure, answers a record whose
\* id is the string form of that id and whose title, artist, description, price,
\* dimensions, medium, year and status are the supplied values, or "" for a text
\* left out and "available" for the status.
C4_CreatedIsRetrievable ==
    (Answering("get_artwork") /\ last.artwork_id \in DOMAIN created
     /\ last.fault = "none")
    => /\ DOMAIN last.result = {"artwork"}
       /\ LET got == last.result.artwork
              data == created[last.artwork_id]
          IN /\ got.id = ToString(last.artwork_id)
             /\ got.title = data.title
             /\ got.price = data.price
             /\ got.artist = Supplied(data, "artist", "")
             /\ got.description = Supplied(data, "description", "")
             /\ got.dimensions = Supplied(data, "dimensions", "")
             /\ got.medium = Supplied(data, "medium", "")
             /\ got.year = Supplied(data, "year", "")
             /\ got.status = Supplied(data, "status", "available")

\* a row created from a title and a price alone is read back with the defaults
C4_Witness ==
    /\ Answering("get_artwork")
    /\ last.artwork_id \in DOMAIN created
    /\ "status" \notin DOMAIN created[last.artwork_id]
    /\ "artwork" \in DOMAIN last.result
    /\ last.result.artwork.status = "available"
    /\ last.result.artwork.title = "Sunset"

\* C5: the row a successful create_artwork inserts has the caller's subject as
\* artist_id when the caller is an artist, whatever artist_id the data carries;
\* otherwise the data's artist_id, or null when the data has none.
C5_ArtistOwnsWhatTheyCreate ==
    (Answering("create_artwork") /\ Succeeded)
    => /\ last.result.artwork_id \in DOMAIN artworks
       /\ Caller # None /\ "sub" \in DOMAIN Caller
       /\ LET row == artworks[last.result.artwork_id]
              data == last.artwork_data
          IN IF Caller.is_artist
             THEN row.artist_id = Some(Caller.sub)
             ELSE IF "artist_id" \in DOMAIN data
             THEN row.artist_id = Some(data.artist_id)
             ELSE row.artist_id = None

\* artist 42 created a row from data that names artist 7 as the owner
C5_Witness ==
    /\ Answering("create_artwork") /\ Succeeded
    /\ last.fault = "none"
    /\ last.auth_header = Bearer("artistA")
    /\ "artist_id" \in DOMAIN last.artwork_data
    /\ last.artwork_data.artist_id = 7
    /\ artworks[last.result.artwork_id].artist_id = Some(42)

\* the row the call was aimed at, as it is after the call
TargetNow == artworks[last.artwork_id]

OthersUntouched ==
    /\ DOMAIN artworks = DOMAIN last.artworks
    /\ \A i \in DOMAIN artworks \ {last.artwork_id} : artworks[i] = last.artworks[i]

\* C6 (as claimed): a successful update_artwork sets each of title, artist,
\* description, price, dimensions, medium, year, status and image_url that the
\* data holds to the supplied value and leaves every other column of the row, and
\* every other row, as it was.
C6_AllowlistAsClaimed ==
    (Answering("update_artwork") /\ Succeeded)
    => /\ OthersUntouched
       /\ \A c \in DOMAIN Target :
            TargetNow[c] =
              IF c \in {"title", "artist", "description", "price", "dimensions",
                        "medium", "year", "status"} \cap DOMAIN last.artwork_data
              THEN last.artwork_data[c]
              ELSE IF c = "image_url" /\ c \in DOMAIN last.artwork_data
              THEN Some(last.artwork_data[c])
              ELSE Target[c]

\* C6 (amended): a successful update_artwork sets each of title, artist,
\* description, price, dimensions, medium, year and status that the data holds to
\* the supplied value; it sets image_url only when the data carries an inline
\* image that the Image Store writes to a file, and then to that file's path under
\* /static/uploads/ (an image_url key of the data is ignored); every other column
\* of the row, id and artist_id included, and every other row stay as they were.
C6_UpdateFrame ==
    (Answering("update_artwork") /\ Succeeded)
    => /\ OthersUntouched
       /\ \A c \in DOMAIN Target \ {"image_url"} :
            TargetNow[c] =
              IF c \in {"title", "artist", "description", "price", "dimensions",
                        "medium", "year", "status"} \cap DOMAIN last.artwork_data
              THEN last.artwork_data[c]
              ELSE Target[c]
       /\ IF "image" \in DOMAIN last.artwork_data /\ files = last.files + 1
          THEN /\ TargetNow.image_url # None
               /\ StartsWith(TargetNow.image_url[1], <<"/", "static", "/", "uploads", "/">>)
               /\ TargetNow.image_url # Target.image_url
          ELSE /\ TargetNow.image_url = Target.image_url
               /\ files = last.files

\* an update whose data names title, image_url, artist_id and id changed the
\* title and nothing else
C6_Witness ==
    /\ Answering("update_artwork") /\ Succeeded
    /\ DOMAIN last.artwork_data = {"title", "image_url", "artist_id", "id"}
    /\ TargetNow.title = "Dusk" /\ Target.title # "Dusk"
    /\ TargetNow.artist_id = Target.artist_id
    /\ TargetNow.image_url = Target.image_url

UnderUploads(image_url) ==
    image_url = None \/ StartsWith(image_url[1], <<"/", "static", "/", "uploads", "/">>)

\* C7 (as claimed): the image_url of every record get_artwork or get_all_artworks
\* returns is null or begins with /static/uploads/.
C7_ServedUnderUploads ==
    /\ (Answering("get_artwork") /\ "artwork" \in DOMAIN last.result)
       => UnderUploads(last.result.artwork.image_url)
    /\ (Answering("get_all_artworks") /\ "artworks" \in DOMAIN last.result)
       => \A k \in DOMAIN last.result.artworks :
            UnderUploads(last.result.artworks[k].image_url)

\* C8 (as claimed): every connection a call acquires is closed before the call
\* returns, whatever it returns: a call that returns leaves no connection open
\* that was not open before it.
C8_ConnectionsReleased ==
    (last # Idle /\ "raised" \notin DOMAIN last.result)
    => connections = last.connections

\* C9 (as claimed): every call returns a success payload or a mapping with the
\* single key "error"; none ends in an exception.
C9_NothingEscapes ==
    last # Idle
    => /\ "raised" \notin DOMAIN last.result
       /\ Failed => DOMAIN last.result = {"error"}

\* the row get_artwork was aimed at holds an inline image payload
ReadsInline ==
    /\ Answering("get_artwork") /\ HasTarget
    /\ Target.image_url # None /\ Target.image_url[1] # <<>>
    /\ \/ StartsWith(Target.image_url[1], <<"data:">>)
       \/ StartsWith(Target.image_url[1], <<"base64", ",">>)

====
